---- MODULE Spec2Model ----
(***************************************************************************)
(* Session persistence and restoration of the Lern-Guide AI application    *)
(* (App component, utils.ts): the save effect that mirrors the in-memory   *)
(* session to localStorage, the load effect and resume prompt, reset,      *)
(* continue / new, import, and the generation handlers that move the app   *)
(* between screens.                                                        *)
(***************************************************************************)
EXTENDS Integers, Sequences, FiniteSets, TLC

\* ---------------------------------------------------------------- bounds
MaxReloads == 1       \* page reloads in one run
MaxConfigChanges == 1 \* configuration changes between two page loads
MaxSteps == 3         \* user actions (clicks, uploads) in one run
MaxBytes == 3         \* bytes in a file given to the codec
MaxFiles == 2         \* files in one upload, and files held before it

\* ------------------------------------------------------- program constants
AppStates == {"initial", "loading", "resultsDashboard", "error", "guided", "exam", "simulation"}
DetailLevels == {"overview", "standard", "detailed", "eli5"}
ModelNames == {"gemini-2.5-flash", "gemini-2.5-pro"}
ScriptActions == {"guide", "concepts", "flashcards", "exam"}

\* openStepIndex is number | null; null is written NoIndex
NoIndex == -1
\* lastModified given to a File built by `new File(...)` without the option
\* (the time of construction, later than every uploaded file's timestamp)
Now == 9

\* ------------------------------------------------------------ base64 codec
B64Chars ==
  << "A","B","C","D","E","F","G","H","I","J","K","L","M","N","O","P",
     "Q","R","S","T","U","V","W","X","Y","Z","a","b","c","d","e","f",
     "g","h","i","j","k","l","m","n","o","p","q","r","s","t","u","v",
     "w","x","y","z","0","1","2","3","4","5","6","7","8","9","+","/" >>

B64Char(i) == B64Chars[i + 1]

B64Index(c) == (CHOOSE i \in 1..64 : B64Chars[i] = c) - 1

IsB64Char(c) == \E i \in 1..64 : B64Chars[i] = c

RECURSIVE Base64Encode(_)
\* FileReader.readAsDataURL payload: 3 bytes -> 4 characters, '=' padding
Base64Encode(bytes) ==
  IF Len(bytes) = 0 THEN <<>>
  ELSE IF Len(bytes) = 1 THEN
    LET n == bytes[1] * 65536
    IN << B64Char(n \div 262144), B64Char((n \div 4096) % 64), "=", "=" >>
  ELSE IF Len(bytes) = 2 THEN
    LET n == bytes[1] * 65536 + bytes[2] * 256
    IN << B64Char(n \div 262144), B64Char((n \div 4096) % 64),
          B64Char((n \div 64) % 64), "=" >>
  ELSE
    LET n == bytes[1] * 65536 + bytes[2] * 256 + bytes[3]
    IN << B64Char(n \div 262144), B64Char((n \div 4096) % 64),
          B64Char((n \div 64) % 64), B64Char(n % 64) >>
       \o Base64Encode(SubSeq(bytes, 4, Len(bytes)))

\* atob step 1: with a length divisible by 4, one or two trailing '=' go
StripPadding(text) ==
  IF Len(text) > 0 /\ Len(text) % 4 = 0 /\ text[Len(text)] = "="
  THEN IF text[Len(text) - 1] = "="
       THEN SubSeq(text, 1, Len(text) - 2)
       ELSE SubSeq(text, 1, Len(text) - 1)
  ELSE text

\* atob throws InvalidCharacterError on a length of 1 mod 4 or a foreign character
AtobOk(text) ==
  LET s == StripPadding(text)
  IN /\ Len(s) % 4 # 1
     /\ \A i \in 1..Len(s) : IsB64Char(s[i])

RECURSIVE AtobBytes(_)
AtobBytes(s) ==
  IF Len(s) < 2 THEN <<>>
  ELSE IF Len(s) = 2 THEN
    LET n == B64Index(s[1]) * 262144 + B64Index(s[2]) * 4096
    IN << n \div 65536 >>
  ELSE IF Len(s) = 3 THEN
    LET n == B64Index(s[1]) * 262144 + B64Index(s[2]) * 4096 + B64Index(s[3]) * 64
    IN << n \div 65536, (n \div 256) % 256 >>
  ELSE
    LET n == B64Index(s[1]) * 262144 + B64Index(s[2]) * 4096
             + B64Index(s[3]) * 64 + B64Index(s[4])
    IN << n \div 65536, (n \div 256) % 256, n % 256 >>
       \o AtobBytes(SubSeq(s, 5, Len(s)))

Atob(text) == AtobBytes(StripPadding(text))

\* ------------------------------------------------------------------- files
\* a browser File: name, MIME type, lastModified and byte content
File(name, type, lastModified, bytes) ==
  [name |-> name, type |-> type, lastModified |-> lastModified, bytes |-> bytes]

FileA == File("a.pdf", "application/pdf", 1, << 37, 80, 68 >>)
FileB == File("b.pdf", "application/pdf", 2, << 255, 0 >>)
FileP == File("p.pdf", "application/pdf", 3, << 77 >>)

UploadableFiles == {FileA, FileB}

\* a MIME type with a parameter list (what MediaRecorder gives its recordings)
CodecsType == "video/webm;codecs=vp8,opus"

\* the text of a MIME type, piece by piece, every comma a piece of its own
TypeText(type) ==
  IF type = CodecsType THEN << "video/webm;codecs=vp8", ",", "opus" >>
  ELSE << type >>

\* FileReader.readAsDataURL: data:<type>;base64,<payload>
readAsDataURL(file) ==
  << "data:" >> \o TypeText(file.type) \o << ";base64", "," >> \o Base64Encode(file.bytes)

RECURSIVE Split(_, _)
\* String.prototype.split: the pieces between the separators
Split(text, separator) ==
  IF \A i \in 1..Len(text) : text[i] # separator THEN << text >>
  ELSE LET k == CHOOSE i \in 1..Len(text) :
                  text[i] = separator /\ \A j \in 1..(i - 1) : text[j] # separator
       IN << SubSeq(text, 1, k - 1) >> \o Split(SubSeq(text, k + 1, Len(text)), separator)

\* utils.ts fileToBase64: reader.result.split(',')[1]
fileToBase64(file) == Split(readAsDataURL(file), ",")[2]

\* utils.ts base64ToFile: decoded bytes under the given name and type
base64ToFile(base64, filename, mimeType) ==
  File(filename, mimeType, Now, Atob(base64))

\* SerializableFile
SerializableFile(file) ==
  [name |-> file.name, type |-> file.type, lastModified |-> file.lastModified,
   data |-> fileToBase64(file)]

\* ---------------------------------------------------------- JSON and storage
\* values of varying JavaScript type are tagged records
Undefined == [t |-> "undefined"]
Null == [t |-> "null"]
Arr(items) == [t |-> "array", items |-> items]
JNumber == [t |-> "number"]

\* the string held under SESSION_STORAGE_KEY, or its absence (getItem -> null)
Absent == [kind |-> "absent"]
EmptyString == [kind |-> "empty"]
Garbage == [kind |-> "garbage"]
JSONStringify(value) == [kind |-> "json", value |-> value]
JSONParseThrows(text) == text.kind # "json"
\* the parsed value; Undefined stands for 'no value' where JSON.parse throws
JSONParse(text) == IF text.kind = "json" THEN text.value ELSE Undefined

\* a user-supplied file: its MIME type is application/json or not, and its text
ImportFile(isJson, text) == [isJson |-> isJson, text |-> text]
NoImport == [isJson |-> FALSE, text |-> Absent]

\* GeneratedContent: each artifact a sequence of items, <<>> when absent or null
EmptyContent ==
  [guide |-> <<>>, solvedQuestions |-> <<>>, keyConcepts |-> <<>>,
   flashcards |-> <<>>, examResults |-> <<>>]


\* SavedSession, the object written as JSON under the storage key
SavedSession(as, files, practice, content, open, strict, detail, mdl, action) ==
  [t |-> "object", appState |-> as, scriptFiles |-> files, practiceFile |-> practice,
   generatedContent |-> content, openStepIndex |-> open, useStrictContext |-> strict,
   detailLevel |-> detail, model |-> mdl, selectedScriptAction |-> action]

\* AppNotification | null
NoNotification == [type |-> "none", message |-> "none"]
QuotaWarning == [type |-> "warning", message |-> "quota"]
RestoreWarning == [type |-> "warning", message |-> "restore"]
ImportWarning == [type |-> "warning", message |-> "import"]
NotJsonWarning == [type |-> "warning", message |-> "notJson"]
GenerationWarning == [type |-> "warning", message |-> "generation"]
NextBatchWarning == [type |-> "warning", message |-> "nextBatch"]
ImportSuccess == [type |-> "success", message |-> "imported"]

NoError == "none"
LoadingFailed == "loadingFailed"
NextBatchFailed == "nextBatchFailed"

\* what the generation service returns when it returns something
ServiceItems == << 1 >>
ServiceOutcomes == {"ok", "empty", "fail"}
ServiceResult(outcome) == IF outcome = "ok" THEN ServiceItems ELSE <<>>

\* extractQuestions finds more questions than one batch holds
ExtractedQuestions == << 1, 2, 3, 4, 5, 6 >>
BatchSize == 5
\* Array.prototype.slice(from, to)
Slice(seq, from, to) == SubSeq(seq, from + 1, IF to < Len(seq) THEN to ELSE Len(seq))
\* solvePracticeQuestions: a solution for every question of the batch, or none
SolvedResult(outcome, batch) == IF outcome = "ok" THEN batch ELSE <<>>

\* setItem either stores, or throws QuotaExceededError, or throws otherwise
\* (the last also stands for a rejected fileToBase64)
WriteOutcomes == {"ok", "quota", "error"}

\* ------------------------------------------------------------------- state
VARIABLES
  phase,                \* "boot": component constructed, effects not yet run; "run"
  appState, scriptFiles, practiceFile, generatedContent, openStepIndex,
  useStrictContext, detailLevel, model, selectedScriptAction,
  practiceQuestions, allPracticeQuestions, examQuestions, error,
  savedSessionData, showSessionPrompt, notification,
  storage,              \* localStorage[SESSION_STORAGE_KEY]
  inflight,             \* saveSession calls awaiting their file encodings
  pending,              \* generation handlers awaiting the service or the 500 ms timer
  lastOp,               \* the handler or callback that ran last
  lastWrite,            \* what setItem did in that step: "none" when it was not called
  lastImport,           \* the file handleImportSession was given in that step, or NoImport
  lastExport,           \* the text handleExportSession offered for download in that step, or Absent
  questionsAtSave,      \* history: the question lists at the write of the stored snapshot,
                        \* Null for a snapshot this run did not write
  reloads, configChanges, steps,
  sinceReset            \* history: a reset happened and no user action started since

docs == << scriptFiles, practiceFile >>
config == << useStrictContext, detailLevel, model, selectedScriptAction >>
questions == << practiceQuestions, allPracticeQuestions, examQuestions >>
prompt == << savedSessionData, showSessionPrompt >>
vars == << phase, appState, scriptFiles, practiceFile, generatedContent, openStepIndex,
           useStrictContext, detailLevel, model, selectedScriptAction,
           practiceQuestions, allPracticeQuestions, examQuestions, error,
           savedSessionData, showSessionPrompt, notification,
           storage, inflight, pending, lastOp, lastWrite, lastImport, lastExport,
           questionsAtSave,
           reloads, configChanges, steps,
           sinceReset >>

\* the useState initial values of App
DefaultState ==
  /\ appState = "initial"
  /\ scriptFiles = <<>>
  /\ practiceFile = Null
  /\ generatedContent = EmptyContent
  /\ openStepIndex = NoIndex
  /\ useStrictContext = TRUE
  /\ detailLevel = "standard"
  /\ model = "gemini-2.5-flash"
  /\ selectedScriptAction = "guide"
  /\ practiceQuestions = <<>>
  /\ allPracticeQuestions = <<>>
  /\ examQuestions = <<>>
  /\ error = NoError

\* ---------------------------------------------- what the storage may hold at start
SerializedA == SerializableFile(FileA)
SerializedB == SerializableFile(FileB)
SerializedP == SerializableFile(FileP)
CorruptFile == [name |-> "c.pdf", type |-> "application/pdf", lastModified |-> 1,
                data |-> << "T", "Q", "!", "=" >>]

\* a dashboard session with two script documents and one guide step
GuideSession ==
  SavedSession("resultsDashboard", Arr(<< SerializedA, SerializedB >>), Null,
               [EmptyContent EXCEPT !.guide = << 1 >>], 0,
               FALSE, "detailed", "gemini-2.5-pro", "flashcards")
\* an exam session with its practice document
ExamSession ==
  SavedSession("exam", Arr(<< SerializedB >>), SerializedP,
               EmptyContent, NoIndex, TRUE, "standard", "gemini-2.5-flash", "exam")
\* a session whose practice document does not decode
CorruptSession ==
  SavedSession("guided", Arr(<< SerializedA >>), CorruptFile,
               [EmptyContent EXCEPT !.keyConcepts = << 1 >>], 0,
               FALSE, "eli5", "gemini-2.5-pro", "concepts")
\* a snapshot of the initial screen
InitialSession ==
  SavedSession("initial", Arr(<< SerializedA >>), Null,
               EmptyContent, NoIndex, TRUE, "standard", "gemini-2.5-flash", "guide")
\* the JSON text {}: no appState, no scriptFiles (the other fields are never read)
EmptyObject ==
  SavedSession("undefined", Undefined, Null,
               EmptyContent, NoIndex, TRUE, "standard", "gemini-2.5-flash", "guide")
\* an object whose appState is no AppState value
BogusSession ==
  SavedSession("bogus", Arr(<< >>), Null,
               [EmptyContent EXCEPT !.flashcards = << 1 >>], NoIndex,
               TRUE, "overview", "gemini-2.5-flash", "guide")

InitialStorage ==
  { Absent, EmptyString, Garbage,
    JSONStringify(Null), JSONStringify(JNumber), JSONStringify(EmptyObject),
    JSONStringify(BogusSession), JSONStringify(InitialSession),
    JSONStringify(GuideSession), JSONStringify(ExamSession),
    JSONStringify(CorruptSession) }

Init ==
  /\ phase = "boot"
  /\ DefaultState
  /\ savedSessionData = Null
  /\ showSessionPrompt = FALSE
  /\ notification = NoNotification
  /\ storage \in InitialStorage
  /\ inflight = <<>>
  /\ pending = <<>>
  /\ lastOp = "construct"
  /\ lastWrite = "none"
  /\ lastImport = NoImport
  /\ lastExport = Absent
  /\ questionsAtSave = Null
  /\ reloads = 0
  /\ configChanges = 0
  /\ steps = 0
  /\ sinceReset = FALSE

\* ------------------------------------------------------------- save effect
\* the values the saveSession closure of one render holds
Closure(n) ==
  [appState |-> appState', scriptFiles |-> scriptFiles', practiceFile |-> practiceFile',
   generatedContent |-> generatedContent', openStepIndex |-> openStepIndex',
   useStrictContext |-> useStrictContext', detailLevel |-> detailLevel',
   model |-> model', selectedScriptAction |-> selectedScriptAction',
   notification |-> n]

\* a guard that forgets the loading screen
saveSessionChecksInitialOnly(as, promptShown) == as = "initial" \/ promptShown

\* a guard that forgets the initial screen
saveSessionChecksLoadingOnly(as, promptShown) == as = "loading" \/ promptShown

\* the guard at the top of saveSession
saveSessionReturnsEarly(as, promptShown) ==
  as = "initial" \/ as = "loading" \/ promptShown

\* sessionToSave, built from the closure once every fileToBase64 has resolved
sessionToSave(c) ==
  SavedSession(c.appState,
               Arr([i \in 1..Len(c.scriptFiles) |-> SerializableFile(c.scriptFiles[i])]),
               IF c.practiceFile = Null THEN Null ELSE SerializableFile(c.practiceFile),
               c.generatedContent, c.openStepIndex, c.useStrictContext,
               c.detailLevel, c.model, c.selectedScriptAction)

\* a write that never clears the warning
notificationNeverCleared(c, outcome, current) ==
  IF outcome = "quota" THEN QuotaWarning ELSE current

\* the notification after the setItem line and the line after it (or the catch)
notificationAfterWrite(c, outcome, current) ==
  IF outcome = "ok"
  THEN IF c.notification.type = "warning" THEN NoNotification ELSE current
  ELSE IF outcome = "quota" THEN QuotaWarning ELSE current

\* a write that serializes the state of the moment of the write
storageAfterWriteOfLiveState(c, outcome, current) ==
  IF outcome = "ok"
  THEN JSONStringify(sessionToSave(
         [appState |-> appState, scriptFiles |-> scriptFiles,
          practiceFile |-> practiceFile, generatedContent |-> generatedContent,
          openStepIndex |-> openStepIndex, useStrictContext |-> useStrictContext,
          detailLevel |-> detailLevel, model |-> model,
          selectedScriptAction |-> selectedScriptAction]))
  ELSE current

\* the storage after the setItem line
storageAfterWrite(c, outcome, current) ==
  IF outcome = "ok" THEN JSONStringify(sessionToSave(c)) ELSE current

\* a save awaits FileReader events only when there is a file to encode
HasFilesToEncode(c) == Len(c.scriptFiles) > 0 \/ c.practiceFile # Null

\* The save effect of the render that follows a handler.  fired: a dependency
\* of the effect changed; n, s: notification and storage as the handler left them.
SaveEffect(fired, n, s) ==
  IF ~fired \/ saveSessionReturnsEarly(appState', showSessionPrompt')
  THEN /\ inflight' = inflight
       /\ storage' = s
       /\ notification' = n
       /\ lastWrite' = "none"
       /\ questionsAtSave' = IF s = Absent THEN Null ELSE questionsAtSave
  ELSE IF HasFilesToEncode(Closure(n))
  THEN /\ inflight' = Append(inflight, Closure(n))
       /\ storage' = s
       /\ notification' = n
       /\ lastWrite' = "none"
       /\ questionsAtSave' = IF s = Absent THEN Null ELSE questionsAtSave
  ELSE \E outcome \in WriteOutcomes :
       /\ inflight' = inflight
       /\ lastWrite' = outcome
       /\ storage' = storageAfterWrite(Closure(n), outcome, s)
       /\ notification' = notificationAfterWrite(Closure(n), outcome, n)
       /\ questionsAtSave' =
            IF outcome = "ok"
            THEN [exam |-> examQuestions', practice |-> practiceQuestions']
            ELSE IF s = Absent THEN Null ELSE questionsAtSave

\* a catch block that switches to the error screen
SaveCompletesFailureShowsError ==
  /\ UNCHANGED << steps, sinceReset >>
  /\ lastImport' = NoImport
  /\ lastExport' = Absent
  /\ phase = "run"
  /\ \E i \in 1..Len(inflight), outcome \in WriteOutcomes :
       /\ inflight' = [j \in 1..(Len(inflight) - 1) |->
                         IF j < i THEN inflight[j] ELSE inflight[j + 1]]
       /\ storage' = storageAfterWrite(inflight[i], outcome, storage)
       /\ notification' = notificationAfterWrite(inflight[i], outcome, notification)
       /\ lastWrite' = outcome
       /\ questionsAtSave' =
            IF outcome = "ok"
            THEN [exam |-> examQuestions, practice |-> practiceQuestions]
            ELSE questionsAtSave
       /\ appState' = IF outcome = "ok" THEN appState ELSE "error"
  /\ lastOp' = "saveCompletes"
  /\ UNCHANGED << phase, docs, generatedContent, openStepIndex, config,
                  questions, error, prompt, pending, reloads, configChanges >>

\* the FileReader events of one save have all arrived: its write happens
SaveCompletes ==
  /\ UNCHANGED << steps, sinceReset >>
  /\ lastImport' = NoImport
  /\ lastExport' = Absent
  /\ phase = "run"
  /\ \E i \in 1..Len(inflight), outcome \in WriteOutcomes :
       /\ inflight' = [j \in 1..(Len(inflight) - 1) |->
                         IF j < i THEN inflight[j] ELSE inflight[j + 1]]
       /\ storage' = storageAfterWrite(inflight[i], outcome, storage)
       /\ notification' = notificationAfterWrite(inflight[i], outcome, notification)
       /\ lastWrite' = outcome
       /\ questionsAtSave' =
            IF outcome = "ok"
            THEN [exam |-> examQuestions, practice |-> practiceQuestions]
            ELSE questionsAtSave
  /\ lastOp' = "saveCompletes"
  /\ UNCHANGED << phase, appState, docs, generatedContent, openStepIndex, config,
                  questions, error, prompt, pending, reloads, configChanges >>

\* ------------------------------------------------------------- load effect
\* reading a property of the parsed value throws for null
PropertyReadThrows(value) == value.t = "null"
AppStateOf(value) == IF value.t = "object" THEN value.appState ELSE "undefined"
ScriptFilesOf(value) == IF value.t = "object" THEN value.scriptFiles ELSE Undefined

\* getItem result is falsy: key absent or empty string
IsFalsy(text) == text = Absent \/ text = EmptyString

\* the load effect reaches its catch block
LoadThrows(text) ==
  /\ ~IsFalsy(text)
  /\ \/ JSONParseThrows(text)
     \/ PropertyReadThrows(JSONParse(text))

\* the load effect offers the stored value for resumption
LoadOffers(text) ==
  /\ ~IsFalsy(text)
  /\ ~LoadThrows(text)
  /\ AppStateOf(JSONParse(text)) # "initial"

\* a catch block that only logs
storageAfterLoadKeepsKey(text) == text

\* the catch block removes the key
storageAfterLoad(text) == IF LoadThrows(text) THEN Absent ELSE text

LoadEffect ==
  /\ UNCHANGED steps
  /\ lastImport' = NoImport
  /\ lastExport' = Absent
  /\ phase = "boot"
  /\ phase' = "run"
  /\ IF LoadOffers(storage)
     THEN /\ savedSessionData' = JSONParse(storage)
          /\ showSessionPrompt' = TRUE
     ELSE UNCHANGED prompt
  /\ lastOp' = IF LoadThrows(storage)
               THEN IF JSONParseThrows(storage) THEN "loadSyntaxError" ELSE "loadTypeError"
               ELSE IF LoadOffers(storage) THEN "loadOffered" ELSE "load"
  /\ sinceReset' = FALSE
  /\ UNCHANGED << appState, docs, generatedContent, openStepIndex, config,
                  questions, error, pending, reloads, configChanges >>
  /\ SaveEffect(TRUE, notification, storageAfterLoad(storage))

\* the page is reloaded: a new App is constructed over the same storage
Reload ==
  /\ UNCHANGED << steps, sinceReset >>
  /\ lastImport' = NoImport
  /\ lastExport' = Absent
  /\ phase = "run"
  /\ reloads < MaxReloads
  /\ reloads' = reloads + 1
  /\ phase' = "boot"
  /\ appState' = "initial"
  /\ scriptFiles' = <<>>
  /\ practiceFile' = Null
  /\ generatedContent' = EmptyContent
  /\ openStepIndex' = NoIndex
  /\ useStrictContext' = TRUE
  /\ detailLevel' = "standard"
  /\ model' = "gemini-2.5-flash"
  /\ selectedScriptAction' = "guide"
  /\ practiceQuestions' = <<>>
  /\ allPracticeQuestions' = <<>>
  /\ examQuestions' = <<>>
  /\ error' = NoError
  /\ savedSessionData' = Null
  /\ showSessionPrompt' = FALSE
  /\ notification' = NoNotification
  /\ inflight' = <<>>
  /\ pending' = <<>>
  /\ configChanges' = 0
  /\ lastOp' = "construct"
  /\ lastWrite' = "none"
  /\ UNCHANGED << storage, questionsAtSave >>


\* ------------------------------------------------------------ what is on screen
Running == phase = "run"
PromptShown == Running /\ showSessionPrompt
\* a renderContent that does not put the session prompt first
WizardShownUnderPrompt ==
  /\ phase = "run"
  /\ appState \notin {"loading", "resultsDashboard", "guided", "simulation", "exam", "error"}

\* renderContent: the SetupWizard is the default branch of the switch
WizardShown ==
  /\ Running
  /\ ~showSessionPrompt
  /\ appState \notin {"loading", "resultsDashboard", "guided", "simulation", "exam", "error"}
DashboardShown == Running /\ ~showSessionPrompt /\ appState = "resultsDashboard"
\* step 3 of the wizard is reached only through step 1's "Weiter", enabled with a script file
WizardStartEnabled == WizardShown /\ Len(scriptFiles) > 0

\* one more user action within the bound
UserStep ==
  /\ steps < MaxSteps
  /\ steps' = steps + 1
  /\ sinceReset' = FALSE
  /\ lastImport' = NoImport
  /\ lastExport' = Absent

Remove(seq, i) ==
  [j \in 1..(Len(seq) - 1) |-> IF j < i THEN seq[j] ELSE seq[j + 1]]

\* ---------------------------------------------------------- reset and restore
\* an exit that keeps the generated content
handleReturnToConfigKeepsContent ==
  /\ UNCHANGED generatedContent
  /\ practiceQuestions' = <<>>
  /\ examQuestions' = <<>>
  /\ allPracticeQuestions' = <<>>
  /\ error' = NoError
  /\ openStepIndex' = NoIndex
  /\ appState' = "initial"

handleReturnToConfig ==
  /\ generatedContent' = EmptyContent
  /\ practiceQuestions' = <<>>
  /\ examQuestions' = <<>>
  /\ allPracticeQuestions' = <<>>
  /\ error' = NoError
  /\ openStepIndex' = NoIndex
  /\ appState' = "initial"

\* a reset that forgets the practice document
handleResetKeepsPracticeFile ==
  /\ handleReturnToConfig
  /\ scriptFiles' = <<>>
  /\ UNCHANGED practiceFile

\* the state part of handleReset (its removeItem is the storage argument of SaveEffect)
handleReset ==
  /\ handleReturnToConfig
  /\ scriptFiles' = <<>>
  /\ practiceFile' = Null

\* leaving a guided, simulation or exam session (onExit)
HandleReturnToConfig ==
  /\ UserStep
  /\ Running /\ ~showSessionPrompt
  /\ appState \in {"guided", "simulation", "exam"}
  /\ handleReturnToConfig
  /\ lastOp' = "returnToConfig"
  /\ UNCHANGED << phase, docs, config, prompt, pending, reloads, configChanges >>
  /\ SaveEffect(TRUE, notification, storage)

\* header button (shown while appState is not 'initial'), dashboard and error screen
HandleReset ==
  /\ steps < MaxSteps /\ steps' = steps + 1
  /\ sinceReset' = TRUE
  /\ lastImport' = NoImport
  /\ lastExport' = Absent
  /\ Running
  /\ appState # "initial"
  /\ handleReset
  /\ lastOp' = "reset"
  /\ UNCHANGED << phase, config, prompt, pending, reloads, configChanges >>
  /\ SaveEffect(TRUE, notification, Absent)

\* a "Neu starten" that keeps the candidate snapshot
HandleStartNewSessionKeepsCandidate ==
  /\ UserStep
  /\ PromptShown
  /\ showSessionPrompt' = FALSE
  /\ UNCHANGED savedSessionData
  /\ handleReset
  /\ lastOp' = "new"
  /\ UNCHANGED << phase, config, pending, reloads, configChanges >>
  /\ SaveEffect(TRUE, notification, Absent)

\* "Neu starten" of the session prompt
HandleStartNewSession ==
  /\ UserStep
  /\ PromptShown
  /\ showSessionPrompt' = FALSE
  /\ savedSessionData' = Null
  /\ handleReset
  /\ lastOp' = "new"
  /\ UNCHANGED << phase, config, pending, reloads, configChanges >>
  /\ SaveEffect(TRUE, notification, Absent)

\* restoreSessionState throws: scriptFiles has no map, or atob rejects a payload
RestoreThrows(sessionData) ==
  \/ ScriptFilesOf(sessionData).t # "array"
  \/ \E i \in 1..Len(sessionData.scriptFiles.items) :
        ~AtobOk(sessionData.scriptFiles.items[i].data)
  \/ /\ sessionData.practiceFile # Null
     /\ ~AtobOk(sessionData.practiceFile.data)

\* a restore that rebuilds the script documents in reverse order
restoredScriptFilesReversed(sessionData) ==
  [i \in 1..Len(sessionData.scriptFiles.items) |->
     LET item == sessionData.scriptFiles.items[Len(sessionData.scriptFiles.items) + 1 - i]
     IN base64ToFile(item.data, item.name, item.type)]

restoredScriptFiles(sessionData) ==
  [i \in 1..Len(sessionData.scriptFiles.items) |->
     base64ToFile(sessionData.scriptFiles.items[i].data,
                  sessionData.scriptFiles.items[i].name,
                  sessionData.scriptFiles.items[i].type)]

restoredPracticeFile(sessionData) ==
  IF sessionData.practiceFile # Null
  THEN base64ToFile(sessionData.practiceFile.data, sessionData.practiceFile.name,
                    sessionData.practiceFile.type)
  ELSE Null

\* the try block of restoreSessionState
restoreSessionState(sessionData) ==
  /\ scriptFiles' = restoredScriptFiles(sessionData)
  /\ practiceFile' = restoredPracticeFile(sessionData)
  /\ generatedContent' = sessionData.generatedContent
  /\ openStepIndex' = sessionData.openStepIndex
  /\ useStrictContext' = sessionData.useStrictContext
  /\ detailLevel' = sessionData.detailLevel
  /\ model' = sessionData.model
  /\ selectedScriptAction' = sessionData.selectedScriptAction
  /\ appState' = sessionData.appState
  /\ UNCHANGED << questions, error >>

\* a catch block that warns and does nothing else
restoreFailedOnlyWarns ==
  UNCHANGED << appState, docs, generatedContent, openStepIndex, config, questions,
               error, prompt >>

\* the catch block of restoreSessionState: warning, then handleStartNewSession
restoreFailed ==
  /\ showSessionPrompt' = FALSE
  /\ savedSessionData' = Null
  /\ handleReset
  /\ UNCHANGED config

\* "Fortsetzen" of the session prompt
HandleRestoreSession ==
  /\ UserStep
  /\ PromptShown
  /\ savedSessionData # Null
  /\ IF RestoreThrows(savedSessionData)
     THEN /\ restoreFailed
          /\ lastOp' = "restoreFailed"
     ELSE /\ restoreSessionState(savedSessionData)
          /\ showSessionPrompt' = FALSE
          /\ savedSessionData' = Null
          /\ lastOp' = "continue"
  /\ UNCHANGED << phase, pending, reloads, configChanges >>
  /\ SaveEffect(TRUE,
                IF RestoreThrows(savedSessionData) THEN RestoreWarning ELSE notification,
                IF RestoreThrows(savedSessionData) THEN Absent ELSE storage)

\* ------------------------------------------------------------------ import
\* a session object from which the appState field was deleted
StatelessSession == [GuideSession EXCEPT !.appState = "undefined"]
\* a session object whose scriptFiles is a number
NoArraySession == [GuideSession EXCEPT !.scriptFiles = JNumber]
\* a session file written by hand: a script and a recording, both payloads
\* well encoded
RecordingSession ==
  [GuideSession EXCEPT !.scriptFiles =
     Arr(<< SerializedA,
            [name |-> "r.webm", type |-> CodecsType, lastModified |-> 4,
             data |-> Base64Encode(<< 26, 69 >>)] >>)]
ImportFiles ==
  { ImportFile(FALSE, Garbage), ImportFile(TRUE, Garbage),
    ImportFile(TRUE, JSONStringify(RecordingSession)),
    ImportFile(TRUE, JSONStringify(Null)), ImportFile(TRUE, JSONStringify(EmptyObject)),
    ImportFile(TRUE, JSONStringify(StatelessSession)),
    ImportFile(TRUE, JSONStringify(NoArraySession)),
    ImportFile(TRUE, JSONStringify(CorruptSession)) }

\* "Basic validation": sessionData.appState && sessionData.scriptFiles
IsTruthyString(str) == str # "undefined" /\ str # ""
\* a validation that looks at scriptFiles only
importValidatesFilesOnly(sessionData) == ScriptFilesOf(sessionData) # Undefined

importValidates(sessionData) ==
  /\ IsTruthyString(AppStateOf(sessionData))
  /\ ScriptFilesOf(sessionData) # Undefined

\* the import is rejected in the catch of reader.onload
importRejected(file) ==
  \/ JSONParseThrows(file.text)
  \/ PropertyReadThrows(JSONParse(file.text))
  \/ ~importValidates(JSONParse(file.text))

\* handleImportSession with its reader.onload callback
HandleImportSession ==
  /\ steps < MaxSteps /\ steps' = steps + 1
  /\ sinceReset' = FALSE
  /\ WizardShown
  /\ \E file \in ImportFiles :
       /\ lastImport' = file
       /\ lastExport' = Absent
       /\ IF ~file.isJson
          THEN /\ lastOp' = "importRejected"
               /\ UNCHANGED << appState, docs, generatedContent, openStepIndex, config,
                               questions, error, prompt >>
               /\ SaveEffect(FALSE, NotJsonWarning, storage)
          ELSE IF importRejected(file)
          THEN /\ lastOp' = "importRejected"
               /\ UNCHANGED << appState, docs, generatedContent, openStepIndex, config,
                               questions, error, prompt >>
               /\ SaveEffect(FALSE, ImportWarning, storage)
          ELSE IF RestoreThrows(JSONParse(file.text))
          THEN /\ lastOp' = "restoreFailed"
               /\ restoreFailed
               /\ SaveEffect(TRUE, RestoreWarning, Absent)
          ELSE /\ lastOp' = "imported"
               /\ restoreSessionState(JSONParse(file.text))
               /\ UNCHANGED prompt
               /\ SaveEffect(TRUE, ImportSuccess, storage)
  /\ UNCHANGED << phase, pending, reloads, configChanges >>


\* ------------------------------------------------------------------ export
ExportSuccess == [type |-> "success", message |-> "exported"]
ExportWarning == [type |-> "warning", message |-> "export"]

\* sessionToSave of handleExportSession, built from the state of the render
\* whose button was pressed
exportedSession ==
  SavedSession(appState,
               Arr([i \in 1..Len(scriptFiles) |-> SerializableFile(scriptFiles[i])]),
               IF practiceFile # Null THEN SerializableFile(practiceFile) ELSE Null,
               generatedContent, openStepIndex, useStrictContext,
               detailLevel, model, selectedScriptAction)

\* "Sitzung" button of the dashboard: handleExportSession through to its
\* notification; a fileToBase64 that rejects gives the warning and no download
HandleExportSession ==
  /\ steps < MaxSteps /\ steps' = steps + 1
  /\ sinceReset' = FALSE
  /\ lastImport' = NoImport
  /\ DashboardShown
  /\ lastOp' = "export"
  /\ UNCHANGED << phase, appState, docs, generatedContent, openStepIndex, config,
                  questions, error, prompt, pending, reloads, configChanges >>
  /\ \E outcome \in {"ok", "error"} :
       IF outcome = "ok"
       THEN /\ lastExport' = JSONStringify(exportedSession)
            /\ SaveEffect(FALSE, ExportSuccess, storage)
       ELSE /\ lastExport' = Absent
            /\ SaveEffect(FALSE, ExportWarning, storage)

\* ------------------------------------------------------- files and configuration
\* handleAddScriptFiles: a new file is dropped when a held file has its name
\* (the size and lastModified comparisons compare the held file with itself)
uniqueNewFiles(prevFiles, newFiles) ==
  SelectSeq(newFiles, LAMBDA nf :
     ~ \E i \in 1..Len(prevFiles) :
          /\ prevFiles[i].name = nf.name
          /\ prevFiles[i].bytes = prevFiles[i].bytes
          /\ prevFiles[i].lastModified = prevFiles[i].lastModified)

\* setScriptFiles(prevFiles => [...prevFiles, ...uniqueNewFiles])
scriptFilesAfterAdd(prevFiles, newFiles) == prevFiles \o uniqueNewFiles(prevFiles, newFiles)

NewFileLists == { << FileA >>, << FileB >>, << FileA, FileB >> }

HandleAddScriptFiles ==
  /\ UserStep
  /\ WizardShown
  /\ \E newFiles \in NewFileLists :
       scriptFiles' = scriptFilesAfterAdd(scriptFiles, newFiles)
  /\ lastOp' = "addScriptFiles"
  /\ UNCHANGED << phase, appState, practiceFile, generatedContent, openStepIndex, config,
                  questions, error, prompt, pending, reloads, configChanges >>
  /\ SaveEffect(TRUE, notification, storage)

HandleRemoveScriptFile ==
  /\ UserStep
  /\ WizardShown
  /\ \E indexToRemove \in 1..Len(scriptFiles) :
       scriptFiles' = Remove(scriptFiles, indexToRemove)
  /\ lastOp' = "removeScriptFile"
  /\ UNCHANGED << phase, appState, practiceFile, generatedContent, openStepIndex, config,
                  questions, error, prompt, pending, reloads, configChanges >>
  /\ SaveEffect(TRUE, notification, storage)

\* step 2 of the wizard: the practice file upload
SetPracticeFile ==
  /\ UserStep
  /\ WizardStartEnabled
  /\ practiceFile # FileP
  /\ practiceFile' = FileP
  /\ lastOp' = "setPracticeFile"
  /\ UNCHANGED << phase, appState, scriptFiles, generatedContent, openStepIndex, config,
                  questions, error, prompt, pending, reloads, configChanges >>
  /\ SaveEffect(TRUE, notification, storage)

\* the radio buttons and checkbox of the wizard (step 3) and the detail level
\* choice of the dashboard's "Hinzufuegen" panel; a setter called with the
\* current value causes no render
ChangeConfig ==
  /\ UserStep
  /\ configChanges < MaxConfigChanges
  /\ configChanges' = configChanges + 1
  /\ \/ /\ WizardStartEnabled
        /\ \/ /\ useStrictContext' = ~useStrictContext
              /\ UNCHANGED << detailLevel, model, selectedScriptAction >>
           \/ /\ \E m \in ModelNames \ {model} : model' = m
              /\ UNCHANGED << useStrictContext, detailLevel, selectedScriptAction >>
           \/ /\ \E a \in ScriptActions \ {selectedScriptAction} : selectedScriptAction' = a
              /\ UNCHANGED << useStrictContext, detailLevel, model >>
     \/ /\ WizardStartEnabled \/ DashboardShown
        /\ \E d \in DetailLevels \ {detailLevel} : detailLevel' = d
        /\ UNCHANGED << useStrictContext, model, selectedScriptAction >>
  /\ lastOp' = "changeConfig"
  /\ UNCHANGED << phase, appState, docs, generatedContent, openStepIndex,
                  questions, error, prompt, pending, reloads >>
  /\ SaveEffect(TRUE, notification, storage)

\* onStepClick of the guide display: open a step or close the open one
SetOpenStepIndex ==
  /\ UserStep
  /\ DashboardShown
  /\ Len(generatedContent.guide) + Len(generatedContent.solvedQuestions) > 0
  /\ \E index \in {NoIndex, 0} :
       /\ index # openStepIndex
       /\ openStepIndex' = index
  /\ lastOp' = "setOpenStepIndex"
  /\ UNCHANGED << phase, appState, docs, generatedContent, config,
                  questions, error, prompt, pending, reloads, configChanges >>
  /\ SaveEffect(TRUE, notification, storage)

\* the close button of the notification, or its 8 s timer
DismissNotification ==
  /\ UserStep
  /\ Running
  /\ notification # NoNotification
  /\ lastOp' = "dismissNotification"
  /\ UNCHANGED << phase, appState, docs, generatedContent, openStepIndex, config,
                  questions, error, prompt, pending, reloads, configChanges >>
  /\ SaveEffect(FALSE, NoNotification, storage)

\* -------------------------------------------------------------- generation
Request(kind, nextState) ==
  [kind |-> kind, stage |-> "await", result |-> <<>>, nextState |-> nextState]

\* startLoadingProcess
startLoadingProcess ==
  /\ appState' = "loading"
  /\ error' = NoError

\* handleLoadingError
handleLoadingError ==
  /\ error' = LoadingFailed
  /\ appState' = "error"

WizardKind(action) ==
  CASE action = "guide" -> "wizGuide"
    [] action = "concepts" -> "wizConcepts"
    [] action = "flashcards" -> "wizFlashcards"
    [] OTHER -> "exam"

\* "Aktion starten" on the learn path of the wizard
HandleStartGeneration ==
  /\ UserStep
  /\ WizardStartEnabled
  /\ startLoadingProcess
  /\ pending' = Append(pending, Request(WizardKind(selectedScriptAction), "resultsDashboard"))
  /\ lastOp' = "startGeneration"
  /\ UNCHANGED << phase, docs, generatedContent, openStepIndex, config,
                  questions, prompt, reloads, configChanges >>
  /\ SaveEffect(TRUE, notification, storage)

\* "Uebungen loesen" on the practice path (solution mode 'direct')
HandleSolvePractice ==
  /\ UserStep
  /\ WizardStartEnabled
  /\ practiceFile # Null
  /\ startLoadingProcess
  /\ pending' = Append(pending, Request("solve", "resultsDashboard"))
  /\ lastOp' = "solvePractice"
  /\ UNCHANGED << phase, docs, generatedContent, openStepIndex, config,
                  questions, prompt, reloads, configChanges >>
  /\ SaveEffect(TRUE, notification, storage)

\* the other start buttons of the practice path; activeMode is the wizard's
\* radio choice, read once here
HandleStartGuidedOrSimulation ==
  /\ UserStep
  /\ WizardStartEnabled
  /\ practiceFile # Null
  /\ startLoadingProcess
  /\ \E activeMode \in {"solution", "simulation"} :
       pending' = Append(pending,
                         Request("guidedSim",
                                 IF activeMode = "solution" THEN "guided" ELSE "simulation"))
  /\ lastOp' = "startGuidedOrSimulation"
  /\ UNCHANGED << phase, docs, generatedContent, openStepIndex, config,
                  questions, prompt, reloads, configChanges >>
  /\ SaveEffect(TRUE, notification, storage)

\* submitting the exam form (every question answered)
HandleGradeExam ==
  /\ UserStep
  /\ Running /\ ~showSessionPrompt
  /\ appState = "exam"
  /\ Len(scriptFiles) > 0
  /\ Len(examQuestions) > 0
  /\ startLoadingProcess
  /\ pending' = Append(pending, Request("grade", "resultsDashboard"))
  /\ lastOp' = "gradeExam"
  /\ UNCHANGED << phase, docs, generatedContent, openStepIndex, config,
                  questions, prompt, reloads, configChanges >>
  /\ SaveEffect(TRUE, notification, storage)

DashboardKinds == {"dashGuide", "dashConcepts", "dashFlashcards"}
WizardKinds == {"wizGuide", "wizConcepts", "wizFlashcards"}

\* "Jetzt generieren" of the dashboard; isGenerating allows one request at a time
HandleGenerateFromDashboard ==
  /\ UserStep
  /\ DashboardShown
  /\ Len(scriptFiles) > 0
  /\ ~ \E i \in 1..Len(pending) : pending[i].kind \in DashboardKinds
  /\ \E kind \in DashboardKinds \cup {"exam"} :
       /\ pending' = Append(pending, Request(kind, "resultsDashboard"))
       /\ IF kind = "exam"
          THEN startLoadingProcess
          ELSE /\ error' = NoError
               /\ UNCHANGED appState
  /\ lastOp' = "generateFromDashboard"
  /\ UNCHANGED << phase, docs, generatedContent, openStepIndex, config,
                  questions, prompt, reloads, configChanges >>
  /\ SaveEffect(appState' # appState, notification, storage)

\* the content after handleGenerateGuide / KeyConcepts / Flashcards stored its result
contentAfterGenerate(prev, kind, result) ==
  CASE kind \in {"wizGuide", "dashGuide"} ->
         [prev EXCEPT !.guide = result, !.solvedQuestions = <<>>]
    [] kind \in {"wizConcepts", "dashConcepts"} -> [prev EXCEPT !.keyConcepts = result]
    [] OTHER -> [prev EXCEPT !.flashcards = result]

\* the service answers handleGenerateGuide / KeyConcepts / Flashcards
GenerateResponds ==
  /\ UNCHANGED << steps, sinceReset >>
  /\ lastImport' = NoImport
  /\ lastExport' = Absent
  /\ Running
  /\ \E i \in 1..Len(pending), outcome \in ServiceOutcomes :
       /\ pending[i].kind \in WizardKinds \cup DashboardKinds
       /\ pending[i].stage = "await"
       /\ IF outcome = "ok"
          THEN /\ generatedContent' =
                    contentAfterGenerate(generatedContent, pending[i].kind, ServiceItems)
               /\ openStepIndex' =
                    IF pending[i].kind \in {"wizGuide", "dashGuide"} THEN 0 ELSE openStepIndex
          ELSE UNCHANGED << generatedContent, openStepIndex >>
       /\ pending' = IF pending[i].kind \in WizardKinds
                     THEN [pending EXCEPT ![i].stage = "timer"]
                     ELSE Remove(pending, i)
       /\ lastOp' = "generateResponds"
       /\ UNCHANGED << phase, appState, docs, config, questions, error, prompt,
                       reloads, configChanges >>
       /\ SaveEffect(outcome = "ok",
                     IF outcome = "ok" THEN notification ELSE GenerationWarning,
                     storage)

\* the service answers a handler that runs under the full-page loader
LoadingResponds ==
  /\ UNCHANGED << steps, sinceReset >>
  /\ lastImport' = NoImport
  /\ lastExport' = Absent
  /\ Running
  /\ \E i \in 1..Len(pending), outcome \in ServiceOutcomes :
       /\ pending[i].kind \in {"exam", "guidedSim", "grade", "solve"}
       /\ pending[i].stage \in {"await", "await2"}
       /\ IF pending[i].kind = "solve" /\ pending[i].stage = "await"
          THEN \* extractQuestions of handleSolvePractice
               IF outcome = "ok"
               THEN /\ allPracticeQuestions' = ExtractedQuestions
                    /\ pending' = [pending EXCEPT ![i].stage = "await2"]
                    /\ UNCHANGED << appState, error, practiceQuestions, examQuestions >>
               ELSE /\ handleLoadingError
                    /\ pending' = Remove(pending, i)
                    /\ UNCHANGED questions
          ELSE IF outcome = "fail"
               THEN /\ handleLoadingError
                    /\ pending' = Remove(pending, i)
                    /\ UNCHANGED questions
               ELSE \* finishLoadingProcess: the callback runs 500 ms later
                    /\ pending' =
                         [pending EXCEPT
                            ![i].stage = "timer",
                            ![i].result =
                              IF pending[i].kind = "solve"
                              THEN SolvedResult(outcome,
                                                Slice(allPracticeQuestions, 0, BatchSize))
                              ELSE ServiceResult(outcome)]
                    /\ UNCHANGED << appState, error, questions >>
       /\ lastOp' = "loadingResponds"
       /\ UNCHANGED << phase, docs, generatedContent, openStepIndex, config, prompt,
                       reloads, configChanges >>
       /\ SaveEffect(appState' # appState, notification, storage)

\* the setTimeout callback of finishLoadingProcess
TimerFires ==
  /\ UNCHANGED << steps, sinceReset >>
  /\ lastImport' = NoImport
  /\ lastExport' = Absent
  /\ Running
  /\ \E i \in 1..Len(pending) :
       /\ pending[i].stage = "timer"
       /\ pending' = Remove(pending, i)
       /\ IF pending[i].kind \in WizardKinds
          THEN /\ appState' = "resultsDashboard"
               /\ UNCHANGED << generatedContent, openStepIndex, questions >>
          ELSE IF Len(pending[i].result) = 0
          THEN \* the callback throws inside the timer: nothing is set
               UNCHANGED << appState, generatedContent, openStepIndex, questions >>
          ELSE CASE pending[i].kind = "exam" ->
                      /\ examQuestions' = pending[i].result
                      /\ appState' = "exam"
                      /\ UNCHANGED << generatedContent, openStepIndex,
                                      practiceQuestions, allPracticeQuestions >>
                 [] pending[i].kind = "grade" ->
                      /\ generatedContent' =
                           [generatedContent EXCEPT !.examResults = pending[i].result]
                      /\ appState' = "resultsDashboard"
                      /\ UNCHANGED << openStepIndex, questions >>
                 [] pending[i].kind = "solve" ->
                      /\ generatedContent' =
                           [generatedContent EXCEPT !.solvedQuestions = pending[i].result,
                                                    !.guide = <<>>]
                      /\ appState' = "resultsDashboard"
                      /\ openStepIndex' = 0
                      /\ UNCHANGED questions
                 [] OTHER ->
                      /\ practiceQuestions' = pending[i].result
                      /\ appState' = pending[i].nextState
                      /\ UNCHANGED << generatedContent, openStepIndex,
                                      allPracticeQuestions, examQuestions >>
       /\ lastOp' = "timerFires"
       /\ UNCHANGED << phase, docs, config, error, prompt, reloads, configChanges >>
       /\ SaveEffect(\/ appState' # appState
                     \/ pending[i].kind \in {"grade", "solve"} /\ Len(pending[i].result) > 0,
                     notification, storage)

\* "Naechste Aufgaben loesen": isSolvingNextBatch is a request of this kind under way
HandleSolveNextBatch ==
  /\ UserStep
  /\ DashboardShown
  /\ ~ \E i \in 1..Len(pending) : pending[i].kind = "nextBatch"
  /\ Len(scriptFiles) > 0
  /\ Len(generatedContent.solvedQuestions) < Len(allPracticeQuestions)
  /\ error' = NoError
  /\ pending' =
       Append(pending,
              [Request("nextBatch", "resultsDashboard") EXCEPT
                 !.result = Slice(allPracticeQuestions,
                                  Len(generatedContent.solvedQuestions),
                                  Len(generatedContent.solvedQuestions) + BatchSize)])
  /\ lastOp' = "solveNextBatch"
  /\ UNCHANGED << phase, appState, docs, generatedContent, openStepIndex, config,
                  questions, prompt, reloads, configChanges >>
  /\ SaveEffect(FALSE, notification, storage)

\* solvePracticeQuestions answers handleSolveNextBatch
SolveNextBatchResponds ==
  /\ UNCHANGED << steps, sinceReset >>
  /\ lastImport' = NoImport
  /\ lastExport' = Absent
  /\ Running
  /\ \E i \in 1..Len(pending), outcome \in ServiceOutcomes :
       /\ pending[i].kind = "nextBatch"
       /\ pending' = Remove(pending, i)
       /\ generatedContent' =
            IF outcome = "ok"
            THEN [generatedContent EXCEPT
                    !.solvedQuestions = generatedContent.solvedQuestions \o pending[i].result]
            ELSE generatedContent
       /\ error' = IF outcome = "fail" THEN NextBatchFailed ELSE error
       /\ lastOp' = "solveNextBatchResponds"
       /\ UNCHANGED << phase, appState, docs, openStepIndex, config, questions, prompt,
                       reloads, configChanges >>
       /\ SaveEffect(outcome = "ok",
                     IF outcome = "empty" THEN NextBatchWarning ELSE notification,
                     storage)

\* --------------------------------------------------------------------- spec
Next ==
  \/ LoadEffect
  \/ Reload
  \/ SaveCompletes
  \/ HandleReturnToConfig
  \/ HandleReset
  \/ HandleStartNewSession
  \/ HandleRestoreSession
  \/ HandleImportSession
  \/ HandleExportSession
  \/ HandleAddScriptFiles
  \/ HandleRemoveScriptFile
  \/ SetPracticeFile
  \/ ChangeConfig
  \/ SetOpenStepIndex
  \/ DismissNotification
  \/ HandleStartGeneration
  \/ HandleSolvePractice
  \/ HandleStartGuidedOrSimulation
  \/ HandleGradeExam
  \/ HandleGenerateFromDashboard
  \/ GenerateResponds
  \/ LoadingResponds
  \/ TimerFires

Spec == Init /\ [][Next]_vars

\* every FileReader read ends, so every save under way reaches its write
LiveSpec == Spec /\ WF_vars(SaveCompletes)

\* ------------------------------------------- the dashboard after a first batch
\* the session right after handleSolvePractice finished from the wizard: a
\* script, a practice document, the first batch solved, its snapshot stored
BatchInit ==
  /\ phase = "run"
  /\ appState = "resultsDashboard"
  /\ scriptFiles = << FileA >>
  /\ practiceFile = FileP
  /\ generatedContent =
       [EmptyContent EXCEPT !.solvedQuestions = Slice(ExtractedQuestions, 0, BatchSize)]
  /\ openStepIndex = 0
  /\ useStrictContext = TRUE
  /\ detailLevel = "standard"
  /\ model = "gemini-2.5-flash"
  /\ selectedScriptAction = "guide"
  /\ practiceQuestions = <<>>
  /\ allPracticeQuestions = ExtractedQuestions
  /\ examQuestions = <<>>
  /\ error = NoError
  /\ savedSessionData = Null
  /\ showSessionPrompt = FALSE
  /\ notification = NoNotification
  /\ storage = JSONStringify(sessionToSave(
                  [appState |-> appState, scriptFiles |-> scriptFiles,
                   practiceFile |-> practiceFile, generatedContent |-> generatedContent,
                   openStepIndex |-> openStepIndex, useStrictContext |-> useStrictContext,
                   detailLevel |-> detailLevel, model |-> model,
                   selectedScriptAction |-> selectedScriptAction]))
  /\ inflight = <<>>
  /\ pending = <<>>
  /\ lastOp = "saveCompletes"
  /\ lastWrite = "ok"
  /\ lastImport = NoImport
  /\ lastExport = Absent
  /\ questionsAtSave = Null
  /\ reloads = 0
  /\ configChanges = 0
  /\ steps = 0
  /\ sinceReset = FALSE

\* what can happen on the dashboard and after it
BatchNext ==
  \/ HandleSolveNextBatch
  \/ SolveNextBatchResponds
  \/ HandleGenerateFromDashboard
  \/ GenerateResponds
  \/ LoadingResponds
  \/ TimerFires
  \/ SaveCompletes
  \/ SetOpenStepIndex
  \/ ChangeConfig
  \/ DismissNotification
  \/ HandleExportSession
  \/ HandleReset

BatchSpec == BatchInit /\ [][BatchNext]_vars

\* ------------------------------------------------- the upload on its own
\* a.pdf saved again with more content, and a.pdf touched later
FileALonger == File("a.pdf", "application/pdf", 1, << 37, 80, 68, 70 >>)
FileALater == File("a.pdf", "application/pdf", 5, << 37, 80, 68 >>)
AddableFiles == {FileA, FileB, FileALonger, FileALater}
RECURSIVE FileLists(_)
FileLists(n) ==
  IF n = 0 THEN { <<>> }
  ELSE FileLists(n - 1)
       \cup { Append(l, f) : l \in { k \in FileLists(n - 1) : Len(k) = n - 1 },
                              f \in AddableFiles }

\* the wizard with some script files held and a selection made in the file
\* input, whose change event is still to be handled
AddInit ==
  /\ phase = "run"
  /\ appState = "initial"
  /\ scriptFiles \in FileLists(MaxFiles)
  /\ practiceFile = Null
  /\ generatedContent = EmptyContent
  /\ openStepIndex = NoIndex
  /\ useStrictContext = TRUE
  /\ detailLevel = "standard"
  /\ model = "gemini-2.5-flash"
  /\ selectedScriptAction = "guide"
  /\ practiceQuestions = <<>>
  /\ allPracticeQuestions = <<>>
  /\ examQuestions = <<>>
  /\ error = NoError
  /\ savedSessionData = Null
  /\ showSessionPrompt = FALSE
  /\ notification = NoNotification
  /\ storage = Absent
  /\ inflight = <<>>
  /\ \E newFiles \in FileLists(MaxFiles) \ { <<>> } :
       pending = << [Request("addScriptFiles", "initial") EXCEPT !.result = newFiles] >>
  /\ lastOp = "load"
  /\ lastWrite = "none"
  /\ lastImport = NoImport
  /\ lastExport = Absent
  /\ questionsAtSave = Null
  /\ reloads = 0
  /\ configChanges = 0
  /\ steps = 0
  /\ sinceReset = FALSE

\* handleAddScriptFiles runs for the selection
AddScriptFilesRuns ==
  /\ UserStep
  /\ WizardShown
  /\ Len(pending) = 1 /\ pending[1].kind = "addScriptFiles"
  /\ scriptFiles' = scriptFilesAfterAdd(scriptFiles, pending[1].result)
  /\ pending' = <<>>
  /\ lastOp' = "addScriptFiles"
  /\ UNCHANGED << phase, appState, practiceFile, generatedContent, openStepIndex, config,
                  questions, error, prompt, reloads, configChanges >>
  /\ SaveEffect(TRUE, notification, storage)

AddNext == AddScriptFilesRuns

AddSpec == AddInit /\ [][AddNext]_vars

\* ---------------------------------------------------- the codec on its own
\* a file is encoded as the save effect does it (SerializableFile), then
\* decoded as restoreSessionState does it
SampleBytes == {0, 77, 255}
RECURSIVE ByteStrings(_)
ByteStrings(n) ==
  IF n = 0 THEN { <<>> }
  ELSE ByteStrings(n - 1)
       \cup { Append(b, x) : b \in { c \in ByteStrings(n - 1) : Len(c) = n - 1 },
                              x \in SampleBytes }
CodecNames == {"a.pdf", "notes.txt"}
CodecTypes == {"application/pdf", "text/plain", CodecsType}
CodecFiles ==
  { File(name, type, 1, bytes) :
      name \in CodecNames, type \in CodecTypes, bytes \in ByteStrings(MaxBytes) }

\* the file to encode is any of CodecFiles
CodecInit ==
  /\ phase = "run"
  /\ appState = "initial"
  /\ scriptFiles = <<>>
  /\ practiceFile \in CodecFiles
  /\ generatedContent = EmptyContent
  /\ openStepIndex = NoIndex
  /\ useStrictContext = TRUE
  /\ detailLevel = "standard"
  /\ model = "gemini-2.5-flash"
  /\ selectedScriptAction = "guide"
  /\ practiceQuestions = <<>>
  /\ allPracticeQuestions = <<>>
  /\ examQuestions = <<>>
  /\ error = NoError
  /\ savedSessionData = Null
  /\ showSessionPrompt = FALSE
  /\ notification = NoNotification
  /\ storage = Absent
  /\ inflight = <<>>
  /\ pending = <<>>
  /\ lastOp = "pick"
  /\ lastWrite = "none"
  /\ lastImport = NoImport
  /\ lastExport = Absent
  /\ questionsAtSave = Null
  /\ reloads = 0
  /\ configChanges = 0
  /\ steps = 0
  /\ sinceReset = FALSE

CodecUnchanged ==
  UNCHANGED << phase, appState, generatedContent, openStepIndex, config, questions,
               error, showSessionPrompt, notification, storage, inflight, pending,
               lastWrite, lastImport, lastExport, questionsAtSave, reloads,
               configChanges, steps, sinceReset >>

\* the file is encoded: { name, type, lastModified, data: await fileToBase64(file) }
CodecEncode ==
  /\ lastOp = "pick"
  /\ savedSessionData' = SerializableFile(practiceFile)
  /\ lastOp' = "fileToBase64"
  /\ UNCHANGED << scriptFiles, practiceFile >>
  /\ CodecUnchanged

\* its serialized form is decoded: base64ToFile(data, name, type), or atob throws
CodecDecode ==
  /\ lastOp = "fileToBase64"
  /\ IF AtobOk(savedSessionData.data)
     THEN /\ scriptFiles' = << base64ToFile(savedSessionData.data, savedSessionData.name,
                                            savedSessionData.type) >>
          /\ lastOp' = "base64ToFile"
     ELSE /\ scriptFiles' = scriptFiles
          /\ lastOp' = "base64ToFileThrew"
  /\ UNCHANGED << practiceFile, savedSessionData >>
  /\ CodecUnchanged

CodecNext == CodecEncode \/ CodecDecode

CodecSpec == CodecInit /\ [][CodecNext]_vars

TypeOK ==
  /\ phase \in {"boot", "run"}
  /\ Len(inflight) <= MaxSteps + 1
  /\ Len(pending) <= MaxSteps
  /\ useStrictContext \in BOOLEAN
  /\ detailLevel \in DetailLevels
  /\ model \in ModelNames
  /\ selectedScriptAction \in ScriptActions
  /\ lastWrite \in WriteOutcomes \cup {"none"}

\* ------------------------------------------------------------- properties
Transient == {"initial", "loading"}

\* C1: once a reset has run, and until the user acts again, the storage key
\* holds no snapshot, whatever saves or generations were still under way
C1_ResetLeavesNoSnapshot == sinceReset => storage = Absent

\* C2 as stated: after reset the whole in-memory state, configuration
\* included, has its default values
C2_ResetGivesDefaultState == lastOp = "reset" => DefaultState

\* C2: reset gives the initial screen with no documents, no generated content,
\* no open panel, no questions and no error, and leaves the four configuration
\* values as the user set them
C2_ResetKeepsConfiguration ==
  [][lastOp' = "reset" =>
       /\ appState' = "initial"
       /\ scriptFiles' = <<>>
       /\ practiceFile' = Null
       /\ generatedContent' = EmptyContent
       /\ openStepIndex' = NoIndex
       /\ practiceQuestions' = <<>>
       /\ allPracticeQuestions' = <<>>
       /\ examQuestions' = <<>>
       /\ error' = NoError
       /\ UNCHANGED config]_vars

C2_Witness ==
  /\ lastOp = "reset"
  /\ appState = "initial"
  /\ scriptFiles = <<>>
  /\ model = "gemini-2.5-pro"
  /\ detailLevel = "detailed"

\* C3: whenever the application writes the storage key, the snapshot it
\* writes has neither 'initial' nor 'loading' as its appState
C3_NoTransientSnapshotWritten ==
  [][storage' # storage /\ storage' # Absent =>
       AppStateOf(JSONParse(storage')) \notin Transient]_vars

C3_Witness ==
  /\ lastOp = "saveCompletes"
  /\ appState = "loading"
  /\ storage.kind = "json"
  /\ storage \notin InitialStorage
  /\ AppStateOf(JSONParse(storage)) = "resultsDashboard"

\* C4: a handler or callback that leaves the app on the initial screen, on the
\* loading screen or at the session prompt starts no save: no file encoding
\* begins and the key is not written (a removal apart)
C4_NoSaveStartedWhileTransient ==
  [][(lastOp' # "saveCompletes" /\ (appState' \in Transient \/ showSessionPrompt')) =>
       /\ Len(inflight') <= Len(inflight)
       /\ storage' = storage \/ storage' = Absent]_vars

C4_Witness ==
  /\ lastOp = "generateResponds"
  /\ appState = "loading"
  /\ generatedContent # EmptyContent
  /\ inflight = <<>>
  /\ storage = Absent

\* C5 as stated: a stored value that is not parseable as JSON gives no session
\* and is removed from the storage
C5_UnparseableValueRemoved ==
  [][(phase = "boot" /\ phase' = "run" /\ storage # Absent /\ JSONParseThrows(storage)) =>
       /\ ~showSessionPrompt'
       /\ savedSessionData' = Null
       /\ storage' = Absent]_vars

\* C5: a stored value that is not parseable as JSON gives no session and no
\* error; it is removed from the storage unless it is the empty string, which
\* is left in place like a missing key
C5_UnparseableValueRemovedUnlessEmpty ==
  [][(phase = "boot" /\ phase' = "run" /\ storage # Absent /\ JSONParseThrows(storage)) =>
       /\ ~showSessionPrompt'
       /\ savedSessionData' = Null
       /\ appState' = "initial"
       /\ error' = NoError
       /\ notification' = NoNotification
       /\ storage' = IF storage = EmptyString THEN EmptyString ELSE Absent]_vars

C5_Witness ==
  /\ lastOp = "loadSyntaxError"
  /\ phase = "run"
  /\ storage = Absent
  /\ ~showSessionPrompt
  /\ savedSessionData = Null

\* C6: a stored value that parses but is no session object (no object, no
\* script file array, or an appState outside the known screens) is not offered
\* for resumption, and the key is cleared
C6_InvalidSnapshotNotOffered ==
  [][(/\ phase = "boot" /\ phase' = "run"
      /\ ~JSONParseThrows(storage)
      /\ ~ (/\ JSONParse(storage).t = "object"
            /\ JSONParse(storage).appState \in AppStates
            /\ JSONParse(storage).scriptFiles.t = "array")) =>
       /\ ~showSessionPrompt'
       /\ savedSessionData' = Null
       /\ storage' = Absent]_vars

\* C7: right after the load, a stored snapshot with an appState other than
\* 'initial' has the prompt shown; and while the prompt is shown the live state
\* is the default state, no save is under way, and the storage still holds
\* the snapshot that is offered
C7_PromptLeavesStateAndStorage ==
  /\ (/\ phase = "run"
      /\ lastOp \in {"load", "loadOffered", "loadSyntaxError", "loadTypeError"}
      /\ ~JSONParseThrows(storage)
      /\ JSONParse(storage).t = "object"
      /\ JSONParse(storage).appState # "initial") => showSessionPrompt
  /\ showSessionPrompt =>
       /\ DefaultState
       /\ notification = NoNotification
       /\ inflight = <<>>
       /\ pending = <<>>
       /\ ~JSONParseThrows(storage)
       /\ savedSessionData = JSONParse(storage)

C7_Witness ==
  /\ PromptShown
  /\ lastOp = "loadOffered"
  /\ savedSessionData = GuideSession
  /\ storage = JSONStringify(GuideSession)

\* C8: 'continue' on a snapshot whose payloads decode succeeds and makes the
\* live state that snapshot: as many script documents, in the same order, each
\* with the stored name, type and content, the practice document if there is
\* one, the generated content, the open panel, the four configuration values
\* and the screen; the prompt is gone and the candidate dropped
C8_ContinueRestoresSnapshot ==
  [][(/\ PromptShown
      /\ lastOp' \in {"continue", "restoreFailed"}
      /\ ~RestoreThrows(savedSessionData)) =>
       LET snapshot == savedSessionData
           items == savedSessionData.scriptFiles.items
       IN /\ lastOp' = "continue"
          /\ Len(scriptFiles') = Len(items)
          /\ \A i \in 1..Len(items) :
               /\ scriptFiles'[i].name = items[i].name
               /\ scriptFiles'[i].type = items[i].type
               /\ fileToBase64(scriptFiles'[i]) = items[i].data
          /\ IF snapshot.practiceFile = Null
             THEN practiceFile' = Null
             ELSE /\ practiceFile' # Null
                  /\ practiceFile'.name = snapshot.practiceFile.name
                  /\ practiceFile'.type = snapshot.practiceFile.type
                  /\ fileToBase64(practiceFile') = snapshot.practiceFile.data
          /\ generatedContent' = snapshot.generatedContent
          /\ openStepIndex' = snapshot.openStepIndex
          /\ useStrictContext' = snapshot.useStrictContext
          /\ detailLevel' = snapshot.detailLevel
          /\ model' = snapshot.model
          /\ selectedScriptAction' = snapshot.selectedScriptAction
          /\ appState' = snapshot.appState
          /\ ~showSessionPrompt'
          /\ savedSessionData' = Null]_vars

C8_Witness ==
  /\ lastOp = "continue"
  /\ appState = "resultsDashboard"
  /\ Len(scriptFiles) = 2
  /\ scriptFiles[1].name = "a.pdf"
  /\ scriptFiles[2].bytes = << 255, 0 >>
  /\ generatedContent.guide = << 1 >>
  /\ openStepIndex = 0
  /\ selectedScriptAction = "flashcards"
  /\ ~showSessionPrompt

C10_NewDiscardsCandidate ==
  lastOp = "new" =>
    /\ storage = Absent
    /\ savedSessionData = Null
    /\ ~showSessionPrompt
    /\ DefaultState
    /\ inflight = <<>>

C10_Witness ==
  /\ lastOp = "new"
  /\ phase = "run"
  /\ storage = Absent
  /\ savedSessionData = Null
  /\ appState = "initial"

\* C11: a generation request is issued only once the load effect has run and
\* the resume prompt, if one was shown, has been dismissed; none is pending
\* before that
C11_NoRequestBeforePromptResolved ==
  [][Len(pending') > Len(pending) =>
       /\ phase = "run"
       /\ ~showSessionPrompt
       /\ savedSessionData = Null]_vars

C11_Witness ==
  /\ Len(pending) = 1
  /\ lastOp = "generateFromDashboard"
  /\ ~showSessionPrompt
  /\ Len(scriptFiles) = 2
  /\ scriptFiles[1].lastModified = Now

\* C12: a write that fails on the quota leaves the quota warning displayed;
\* a save that was triggered while that warning was displayed, and whose
\* write succeeds, takes it away
C12_QuotaWarningSetThenCleared ==
  [][/\ lastWrite' = "quota" => notification' = QuotaWarning
     /\ (/\ lastWrite' = "ok"
         /\ notification = QuotaWarning
         /\ \/ lastOp' # "saveCompletes"
            \/ \E i \in 1..Len(inflight) :
                  /\ inflight' = Remove(inflight, i)
                  /\ inflight[i].notification = QuotaWarning) =>
          notification' # QuotaWarning]_vars

C12_Witness ==
  /\ notification = QuotaWarning
  /\ appState = "resultsDashboard"
  /\ Len(inflight) = 1
  /\ inflight[1].notification = QuotaWarning

\* C13: the quota warning, once displayed, stays the displayed notification
\* until a write succeeds: no dismissal, timer or other notification takes
\* its place before that
C13_QuotaWarningSticky ==
  [][(notification = QuotaWarning /\ notification' # QuotaWarning /\ phase' = "run") =>
       lastWrite' = "ok"]_vars

\* C14: a save whose write fails changes nothing of the in-memory session
\* (screen, documents, generated content, open panel, configuration,
\* questions, error) and nothing of the storage, and the app goes on taking
\* user actions: the reset button still works
C14_FailedSaveLeavesSession ==
  /\ [][(lastOp' = "saveCompletes" /\ lastWrite' \in {"quota", "error"}) =>
          /\ UNCHANGED << appState, docs, generatedContent, openStepIndex, config,
                          questions, error, prompt, pending >>
          /\ storage' = storage]_vars
  /\ []((/\ lastOp = "saveCompletes"
         /\ lastWrite \in {"quota", "error"}
         /\ appState # "initial"
         /\ steps < MaxSteps) => ENABLED HandleReset)

C14_Witness ==
  /\ lastOp = "saveCompletes"
  /\ lastWrite = "error"
  /\ appState = "resultsDashboard"
  /\ Len(scriptFiles) = 2
  /\ notification = NoNotification
  /\ storage = JSONStringify(GuideSession)

\* C15: importing a file that is valid JSON but carries no appState shows the
\* import warning and changes neither the in-memory state (the loaded
\* documents included) nor the stored snapshot, and starts no save
C15_ImportWithoutStateRejected ==
  [][(/\ lastImport' # NoImport
      /\ lastImport'.isJson
      /\ ~JSONParseThrows(lastImport'.text)
      /\ AppStateOf(JSONParse(lastImport'.text)) = "undefined") =>
       /\ notification' = ImportWarning
       /\ UNCHANGED << appState, docs, generatedContent, openStepIndex, config,
                       questions, error, prompt >>
       /\ storage' = storage
       /\ inflight' = inflight]_vars

C15_Witness ==
  /\ lastImport = ImportFile(TRUE, JSONStringify(StatelessSession))
  /\ notification = ImportWarning
  /\ scriptFiles = << FileA, FileB >>
  /\ appState = "initial"

\* C16: an imported candidate whose appState is no known screen, or whose
\* scriptFiles is no array, is rejected with the import warning and the live
\* state is left as it was
C16_ImportValidatesStructure ==
  [][(/\ lastImport' # NoImport
      /\ lastImport'.isJson
      /\ ~JSONParseThrows(lastImport'.text)
      /\ \/ AppStateOf(JSONParse(lastImport'.text)) \notin AppStates
         \/ ScriptFilesOf(JSONParse(lastImport'.text)).t # "array") =>
       /\ notification'.type = "warning"
       /\ UNCHANGED << appState, docs, generatedContent, openStepIndex, config,
                       questions, error, prompt >>]_vars

\* C17: the text an export offers for download is the text the save effect
\* would write for the same state; handed to the import it passes the
\* validation, decodes, and gives back the documents (names, types, bytes,
\* order), the generated content, the open panel, the configuration and the
\* screen of the moment of the export
C17_ExportImportRoundTrip ==
  (lastOp = "export" /\ lastExport # Absent) =>
    LET live == [appState |-> appState, scriptFiles |-> scriptFiles,
                 practiceFile |-> practiceFile, generatedContent |-> generatedContent,
                 openStepIndex |-> openStepIndex, useStrictContext |-> useStrictContext,
                 detailLevel |-> detailLevel, model |-> model,
                 selectedScriptAction |-> selectedScriptAction,
                 notification |-> notification]
        snapshot == JSONParse(lastExport)
    IN /\ lastExport = JSONStringify(sessionToSave(live))
       /\ ~importRejected(ImportFile(TRUE, lastExport))
       /\ ~RestoreThrows(snapshot)
       /\ Len(restoredScriptFiles(snapshot)) = Len(scriptFiles)
       /\ \A i \in 1..Len(scriptFiles) :
            /\ restoredScriptFiles(snapshot)[i].name = scriptFiles[i].name
            /\ restoredScriptFiles(snapshot)[i].type = scriptFiles[i].type
            /\ restoredScriptFiles(snapshot)[i].bytes = scriptFiles[i].bytes
       /\ IF practiceFile = Null
          THEN restoredPracticeFile(snapshot) = Null
          ELSE /\ restoredPracticeFile(snapshot) # Null
               /\ restoredPracticeFile(snapshot).name = practiceFile.name
               /\ restoredPracticeFile(snapshot).type = practiceFile.type
               /\ restoredPracticeFile(snapshot).bytes = practiceFile.bytes
       /\ snapshot.generatedContent = generatedContent
       /\ snapshot.openStepIndex = openStepIndex
       /\ snapshot.useStrictContext = useStrictContext
       /\ snapshot.detailLevel = detailLevel
       /\ snapshot.model = model
       /\ snapshot.selectedScriptAction = selectedScriptAction
       /\ snapshot.appState = appState

\* C18: if no write ever fails, then from some point on, whenever the app is
\* on a screen that is saved, the storage key holds the snapshot of the live
\* state, in whatever order the saves under way complete
C18_SavesConverge ==
  [](lastWrite \in {"none", "ok"}) =>
    <>[]((phase = "run" /\ appState \notin Transient /\ ~showSessionPrompt) =>
           storage = JSONStringify(sessionToSave(
             [appState |-> appState, scriptFiles |-> scriptFiles,
              practiceFile |-> practiceFile, generatedContent |-> generatedContent,
              openStepIndex |-> openStepIndex, useStrictContext |-> useStrictContext,
              detailLevel |-> detailLevel, model |-> model,
              selectedScriptAction |-> selectedScriptAction,
              notification |-> notification])))

\* C19: a file that was encoded and then decoded under its name and type comes
\* back with that name, that type and exactly its bytes, and encoding the
\* decoded file gives the same base64 text again
C19_CodecRoundTrip ==
  lastOp \in {"base64ToFile", "base64ToFileThrew"} =>
    /\ lastOp = "base64ToFile"
    /\ scriptFiles[1].name = practiceFile.name
    /\ scriptFiles[1].type = practiceFile.type
    /\ scriptFiles[1].bytes = practiceFile.bytes
    /\ fileToBase64(scriptFiles[1]) = savedSessionData.data

\* the screens that work on a practice document
PracticeScreens == {"guided", "exam", "simulation"}

\* C20: every snapshot the application writes under the storage key with
\* 'guided', 'exam' or 'simulation' as its appState carries a practiceFile
C20_PracticeScreenHasPracticeFile ==
  [][(lastWrite' = "ok" /\ AppStateOf(JSONParse(storage')) \in PracticeScreens) =>
       JSONParse(storage').practiceFile # Null]_vars

\* C21: 'continue' and import never put the app on the guided, exam or
\* simulation screen without a practice document: a snapshot of such a screen
\* that lacks its practiceFile is not restored
C21_PracticeScreenSnapshotNeedsPracticeFile ==
  [][(lastOp' \in {"continue", "imported"} /\ appState' \in PracticeScreens) =>
       practiceFile' # Null]_vars

\* C22: the generated content never holds a guide and solved questions at once
C22_GuideOrSolvedQuestions ==
  ~ (Len(generatedContent.guide) > 0 /\ Len(generatedContent.solvedQuestions) > 0)

\* the values of the render a step ends with, as a save would serialize them
SnapshotAfterStep ==
  SavedSession(appState',
               Arr([i \in 1..Len(scriptFiles') |-> SerializableFile(scriptFiles'[i])]),
               IF practiceFile' = Null THEN Null ELSE SerializableFile(practiceFile'),
               generatedContent', openStepIndex', useStrictContext',
               detailLevel', model', selectedScriptAction')

\* C23: a save writes the state of its trigger: a save that starts holds the
\* values of the render it started in, holds them unchanged while its files
\* are encoded, and the snapshot it writes is the snapshot of those values,
\* whatever the live state is by then; a save without files writes at once
C23_SaveWritesStateOfItsTrigger ==
  [][/\ (Len(inflight') = Len(inflight) + 1) =>
          /\ SubSeq(inflight', 1, Len(inflight)) = inflight
          /\ sessionToSave(inflight'[Len(inflight')]) = SnapshotAfterStep
     /\ (Len(inflight') = Len(inflight) /\ lastOp' # "construct") => inflight' = inflight
     /\ (lastWrite' = "ok" /\ lastOp' # "saveCompletes") =>
          storage' = JSONStringify(SnapshotAfterStep)
     /\ (lastWrite' = "ok" /\ lastOp' = "saveCompletes") =>
          \E i \in 1..Len(inflight) :
             /\ inflight' = Remove(inflight, i)
             /\ storage' = JSONStringify(sessionToSave(inflight[i]))]_vars

\* a save has just written a snapshot of a screen the app has left meanwhile
C23_Witness ==
  /\ lastOp = "saveCompletes"
  /\ lastWrite = "ok"
  /\ AppStateOf(JSONParse(storage)) = "resultsDashboard"
  /\ appState = "loading"
  /\ Len(scriptFiles) > 0

\* C24: from an explicit reset until the user starts the next action the app
\* is on the initial screen with no documents, no generated content and no
\* questions, whatever request was under way when the reset happened
C24_ResetOutlastsRequestsUnderWay ==
  sinceReset =>
    /\ appState = "initial"
    /\ scriptFiles = <<>>
    /\ practiceFile = Null
    /\ generatedContent = EmptyContent
    /\ practiceQuestions = <<>>
    /\ allPracticeQuestions = <<>>
    /\ examQuestions = <<>>

\* C25: when the service has answered a loading process with an empty result
\* and the 500 ms callback of that process has run, the app has left the
\* loading screen for the error screen and an error message is set
C25_EmptyResultEndsOnErrorScreen ==
  [][(/\ appState = "loading"
      /\ lastOp' = "timerFires"
      /\ \E i \in 1..Len(pending) :
            /\ pending' = Remove(pending, i)
            /\ pending[i].stage = "timer"
            /\ pending[i].kind \in {"exam", "guidedSim", "grade", "solve"}
            /\ Len(pending[i].result) = 0) =>
       (appState' = "error" /\ error' # NoError)]_vars

\* C26: when a generation handler has just put the app on the results
\* dashboard, the generated content holds at least one artifact
C26_DashboardHasContent ==
  (lastOp = "timerFires" /\ appState = "resultsDashboard") =>
    generatedContent # EmptyContent

\* C27: 'continue' of a snapshot that was written on the exam, guided or
\* simulation screen resumes on that screen with the question lists the
\* session had when the snapshot was written
C27_ResumeBringsBackQuestions ==
  [][(lastOp' = "continue" /\ questionsAtSave # Null /\ appState' \in PracticeScreens) =>
       /\ examQuestions' = questionsAtSave.exam
       /\ practiceQuestions' = questionsAtSave.practice]_vars

C29_RestoreThenSaveIsStable ==
  [][(/\ lastOp = "continue"
      /\ lastOp' = "saveCompletes"
      /\ lastWrite' = "ok") => storage' = storage]_vars

\* C30: handleAddScriptFiles keeps the held files where they are and appends,
\* in their order, exactly the new files that differ from every held file in
\* name, size or lastModified
C30_AddAppendsFilesNotHeld ==
  [][lastOp' = "addScriptFiles" =>
       scriptFiles' =
         scriptFiles \o
           SelectSeq(pending[1].result, LAMBDA nf :
             \A i \in 1..Len(scriptFiles) :
                \/ scriptFiles[i].name # nf.name
                \/ Len(scriptFiles[i].bytes) # Len(nf.bytes)
                \/ scriptFiles[i].lastModified # nf.lastModified)]_vars

====
